---- MODULE Spec2Model ----
(***************************************************************************)
(* Document scanner, edge-support scoring pipeline (scanner.cpp).          *)
(*                                                                         *)
(* Numbers.  Points are integer pairs <<x, y>>.  cv::contourArea of an     *)
(* integer polygon is a multiple of 0.5, so areas are carried in half      *)
(* pixels (contourArea2 = 2 * area).  A double that is a quotient of       *)
(* integers is carried as the pair <<numerator, denominator>> and compared *)
(* exactly (RatLess); the rounding of IEEE doubles is not modelled.        *)
(* The OpenCV image operators (Canny, threshold, findContours,             *)
(* approxPolyDP, Sobel) are inputs: the polygons they hand to collectQuads *)
(* and the gradient map are drawn from bounded sets.                       *)
(***************************************************************************)
EXTENDS Integers, Sequences, FiniteSets

VARIABLES
    pc,          \* position in detectDocument / in the function under test
    orig,        \* <<cols, rows>> of the input image bgr
    scale,       \* <<num, den>>: scale = num / den
    small,       \* <<cols, rows>> of the working image (also of gradMag)
    gradMag,     \* identifier of the gradient-magnitude map
    candidates,  \* std::vector<Candidate>
    pushed,      \* the candidates in push_back order, as pushed
    gen,         \* generator running (1..6)
    mask,        \* mask of that generator being collected
    limit,       \* collectQuads: number of contours looked at
    eps,         \* collectQuads: tolerance pass (1: 0.02, 2: 0.04)
    ci,          \* collectQuads: contour index i (1-based)
    best,        \* index of the element `best` refers to (0: unset)
    result,      \* detectDocument's result vector
    jni,         \* what quadToJni returned
    arg,         \* quad handed to the function under test
    ret          \* what the function under test returned

vars == <<pc, orig, scale, small, gradMag, candidates, pushed, gen, mask,
          limit, eps, ci, best, result, jni, arg, ret>>

----------------------------------------------------------------------------
(* Bounds of the model *)

MaxPool == 3

MaxContours == 1

GridN == 4

ScoreGridN == 3

(* Program constants *)

TARGET == 600

borderMargin == 5

ContourLimit == 20

MinSamples == 10

Null == "null"

\* a jfloatArray reference: nullptr, or an array with its elements
NullArray == [null |-> TRUE, elems |-> <<>>]

FloatArray(e) == [null |-> FALSE, elems |-> e]

----------------------------------------------------------------------------
(* Arithmetic *)

Abs(n) == IF n < 0 THEN -n ELSE n

Max2(a, b) == IF a < b THEN b ELSE a

Min2(a, b) == IF a < b THEN a ELSE b

\* (int) of a quotient n / d, d > 0: truncation toward zero
Trunc(n, d) == IF n >= 0 THEN n \div d ELSE -((-n) \div d)

\* (int) of sqrt(n), n >= 0
ISqrt(n) == CHOOSE k \in 0..n : k * k <= n /\ (k + 1) * (k + 1) > n

\* a / b < c / d for a, c >= 0 and b, d > 0, without forming a * d
RECURSIVE RatLess(_, _, _, _)
RatLess(a, b, c, d) ==
    LET q1 == a \div b
        q2 == c \div d
        r1 == a % b
        r2 == c % d
    IN  IF q1 # q2 THEN q1 < q2
        ELSE IF r2 = 0 THEN FALSE
        ELSE IF r1 = 0 THEN TRUE
        ELSE RatLess(d, r2, b, r1)

----------------------------------------------------------------------------
(* Geometry helpers *)

X(p) == p[1]

Y(p) == p[2]

\* The cosine is num / sqrt(den2 + 1e-10).
angleCos(p1, p2, p0) ==
    LET dx1 == X(p1) - X(p0)
        dy1 == Y(p1) - Y(p0)
        dx2 == X(p2) - X(p0)
        dy2 == Y(p2) - Y(p0)
    IN  [num |-> dx1 * dx2 + dy1 * dy2,
         den2 |-> (dx1 * dx1 + dy1 * dy1) * (dx2 * dx2 + dy2 * dy2)]

\* std::fabs(c) < 0.4.  25 num^2 < 4 den2 + 4e-10 over the integers is
\* 25 num^2 <= 4 den2; equality needs a zero-length edge (num = den2 = 0),
\* because cos^2 = 4/25 makes cross/dot = sqrt(21)/2 irrational.
FabsBelow04(c) == 25 * c.num * c.num <= 4 * c.den2

\* Index of the first smallest / first largest element of a sequence of ints.
RECURSIVE MinElementFrom(_, _, _)
MinElementFrom(s, i, smallest) ==
    IF i > Len(s) THEN smallest
    ELSE MinElementFrom(s, i + 1, IF s[i] < s[smallest] THEN i ELSE smallest)

min_element(s) == MinElementFrom(s, 2, 1)

RECURSIVE MaxElementFrom(_, _, _)
MaxElementFrom(s, i, largest) ==
    IF i > Len(s) THEN largest
    ELSE MaxElementFrom(s, i + 1, IF s[largest] < s[i] THEN i ELSE largest)

max_element(s) == MaxElementFrom(s, 2, 1)

orderPointsSwapped(pts) ==
    LET s == [i \in 1..4 |-> X(pts[i]) + Y(pts[i])]
        d == [i \in 1..4 |-> Y(pts[i]) - X(pts[i])]
    IN  <<pts[min_element(s)], pts[max_element(d)],
          pts[max_element(s)], pts[min_element(d)]>>

orderPoints(pts) ==
    LET s == [i \in 1..4 |-> X(pts[i]) + Y(pts[i])]
        d == [i \in 1..4 |-> Y(pts[i]) - X(pts[i])]
    IN  <<pts[min_element(s)], pts[min_element(d)],
          pts[max_element(s)], pts[max_element(d)]>>

----------------------------------------------------------------------------
(* OpenCV polygon measures used by the validation *)

Nxt(i, n) == IF i = n THEN 1 ELSE i + 1

RECURSIVE ShoelaceFrom(_, _)
ShoelaceFrom(q, i) ==
    IF i > Len(q) THEN 0
    ELSE LET a == q[i]
             b == q[Nxt(i, Len(q))]
         IN  X(a) * Y(b) - X(b) * Y(a) + ShoelaceFrom(q, i + 1)

\* 2 * cv::contourArea(q)
contourArea2(q) == Abs(ShoelaceFrom(q, 1))

\* cv::isContourConvex: every turn strictly to the same side
Turn(q, i) ==
    LET n == Len(q)
        a == q[i]
        b == q[Nxt(i, n)]
        c == q[Nxt(Nxt(i, n), n)]
    IN  (X(b) - X(a)) * (Y(c) - Y(b)) - (Y(b) - Y(a)) * (X(c) - X(b))

isContourConvex(q) ==
    \/ \A i \in 1..Len(q) : Turn(q, i) > 0
    \/ \A i \in 1..Len(q) : Turn(q, i) < 0

----------------------------------------------------------------------------
(* Quad validation *)

OnBorder(p, imgW, imgH) ==
    \/ X(p) <= borderMargin
    \/ Y(p) <= borderMargin
    \/ X(p) >= imgW - borderMargin - 1
    \/ Y(p) >= imgH - borderMargin - 1

borderCount(quad, imgW, imgH) ==
    Cardinality({i \in 1..Len(quad) : OnBorder(quad[i], imgW, imgH)})

\* The loop j = 2, 3, 4 of isGoodQuad, 0-based indices as in the source:
\* angleCos(quad[j % 4], quad[j - 2], quad[j - 1]).  maxCos < 0.4 holds
\* exactly when every cosine the loop looks at is below 0.4.
LoopCos(quad, j) == angleCos(quad[(j % 4) + 1], quad[j - 1], quad[j])

AreaInRange(quad, imgArea) ==
    LET area2 == contourArea2(quad)
    IN  ~(10 * area2 < imgArea \/ 10 * area2 > 17 * imgArea)

isGoodQuadBorder4(quad, imgArea, imgW, imgH) ==
    IF ~AreaInRange(quad, imgArea) THEN FALSE
    ELSE IF ~isContourConvex(quad) THEN FALSE
    ELSE IF borderCount(quad, imgW, imgH) >= 4 THEN FALSE
    ELSE \A j \in 2..4 : FabsBelow04(LoopCos(quad, j))

isGoodQuad(quad, imgArea, imgW, imgH) ==
    IF ~AreaInRange(quad, imgArea) THEN FALSE
    ELSE IF ~isContourConvex(quad) THEN FALSE
    ELSE IF borderCount(quad, imgW, imgH) >= 3 THEN FALSE
    ELSE \A j \in 2..4 : FabsBelow04(LoopCos(quad, j))

----------------------------------------------------------------------------
(* Gradient map and edge score *)

MapIds == {1, 2}

\* gradMag.at<float>(y, x) of map id: a flat map and a textured one
GradAt(id, x, y) == IF id = 1 THEN 1 ELSE (x + 2 * y) % 4

InMap(x, y, cols, rows) == x >= 0 /\ x < cols /\ y >= 0 /\ y < rows

InMapLoose(x, y, cols, rows) == x >= -1 /\ x <= cols /\ y >= -1 /\ y <= rows

SampleInBounds(x, y, cols, rows) == InMap(x, y, cols, rows)

nSamplesOf(p1, p2) ==
    LET dx == X(p2) - X(p1)
        dy == Y(p2) - Y(p1)
    IN  Max2(MinSamples, ISqrt(dx * dx + dy * dy))

SampleX(p1, p2, s, n) == Trunc(X(p1) * n + s * (X(p2) - X(p1)), n)

SampleY(p1, p2, s, n) == Trunc(Y(p1) * n + s * (Y(p2) - Y(p1)), n)

\* The inner loop of computeEdgeScore over samples lo..hi of the edge p1-p2
\* with n samples (split in halves to keep the evaluation shallow);
\* the result is [totalGrad, numSamples, reads] of those samples.
RECURSIVE SampleLoop(_, _, _, _, _, _, _, _)
SampleLoop(p1, p2, n, id, cols, rows, lo, hi) ==
    IF lo > hi THEN [totalGrad |-> 0, numSamples |-> 0, reads |-> {}]
    ELSE IF lo = hi
    THEN LET x == SampleX(p1, p2, lo, n)
             y == SampleY(p1, p2, lo, n)
         IN  IF SampleInBounds(x, y, cols, rows)
             THEN [totalGrad |-> GradAt(id, x, y), numSamples |-> 1,
                   reads |-> {<<x, y>>}]
             ELSE [totalGrad |-> 0, numSamples |-> 0, reads |-> {}]
    ELSE LET mid == (lo + hi) \div 2
             l == SampleLoop(p1, p2, n, id, cols, rows, lo, mid)
             r == SampleLoop(p1, p2, n, id, cols, rows, mid + 1, hi)
         IN  [totalGrad |-> l.totalGrad + r.totalGrad,
              numSamples |-> l.numSamples + r.numSamples,
              reads |-> l.reads \cup r.reads]

\* The outer loop over the edges i = 1..4;
\* acc = [totalGrad, numSamples, visited, reads].
RECURSIVE EdgeLoop(_, _, _, _, _, _)
EdgeLoop(quad, id, cols, rows, i, acc) ==
    IF i > 4 THEN acc
    ELSE LET p1 == quad[i]
             p2 == quad[Nxt(i, 4)]
             n  == nSamplesOf(p1, p2)
             e  == SampleLoop(p1, p2, n, id, cols, rows, 0, n - 1)
         IN  EdgeLoop(quad, id, cols, rows, i + 1,
                 [totalGrad  |-> acc.totalGrad + e.totalGrad,
                  numSamples |-> acc.numSamples + e.numSamples,
                  visited    |-> acc.visited + n,
                  reads      |-> acc.reads \cup e.reads])

EdgeSamples(quad, id, cols, rows) ==
    EdgeLoop(quad, id, cols, rows, 1,
             [totalGrad |-> 0, numSamples |-> 0, visited |-> 0, reads |-> {}])

\* the return statement: totalGrad / numSamples, or 0
EdgeScoreOf(acc) ==
    IF acc.numSamples > 0 THEN <<acc.totalGrad, acc.numSamples>> ELSE <<0, 1>>

computeEdgeScore(quad, id, cols, rows) ==
    LET acc == EdgeSamples(quad, id, cols, rows)
    IN  [score |-> EdgeScoreOf(acc), numSamples |-> acc.numSamples,
         totalGrad |-> acc.totalGrad, visited |-> acc.visited,
         reads |-> acc.reads]

----------------------------------------------------------------------------
(* Inputs of the function-level specifications *)

\* Interior lattice of an n-pixel axis: GridN coordinates from 6 upward.
LatStep(n) == IF n > 100 THEN 20 ELSE (n - 13) \div 3

Lat(n, k) == 6 + k * LatStep(n)

GeomImage == <<22, 22>>

GeomPoints ==
    {<<Lat(GeomImage[1], i), Lat(GeomImage[2], j)>> :
        i \in 0..(GridN - 1), j \in 0..(GridN - 1)}

\* Points inside and outside a 10 x 8 map
ScoreImage == <<10, 8>>

ScorePoints ==
    {<<8 * i - 4, 8 * j - 4>> : i \in 0..(ScoreGridN - 1), j \in 0..(ScoreGridN - 1)}

Idle ==
    /\ orig = <<0, 0>> /\ scale = <<1, 1>>
    /\ candidates = <<>> /\ pushed = <<>>
    /\ gen = 0 /\ mask = 0 /\ limit = 0 /\ eps = 0 /\ ci = 0
    /\ best = 0 /\ result = <<>> /\ jni = NullArray

IdleStays ==
    UNCHANGED <<orig, scale, candidates, pushed, gen, mask, limit, eps, ci,
                best, jni>>

(* isGoodQuad, then orderPoints, on any four lattice points *)

InitGeom ==
    /\ Idle
    /\ pc = "call"
    /\ small = GeomImage
    /\ gradMag = 1
    /\ arg \in [1..4 -> GeomPoints]
    /\ ret = Null

CallIsGoodQuad ==
    /\ pc = "call"
    /\ ret' = isGoodQuad(arg, small[1] * small[2], small[1], small[2])
    /\ pc' = "validated"
    /\ UNCHANGED <<small, gradMag, arg, result>>
    /\ IdleStays

CallOrderPoints ==
    /\ pc = "validated"
    /\ result' = orderPoints(arg)
    /\ pc' = "ordered"
    /\ UNCHANGED <<small, gradMag, arg, ret>>
    /\ IdleStays

NextGeom == CallIsGoodQuad \/ CallOrderPoints

SpecGeom == InitGeom /\ [][NextGeom]_vars

(* computeEdgeScore on any four points, inside or outside the map *)

InitScore ==
    /\ Idle
    /\ pc = "call"
    /\ small = ScoreImage
    /\ gradMag \in MapIds
    /\ arg \in [1..4 -> ScorePoints]
    /\ ret = Null

CallComputeEdgeScore ==
    /\ pc = "call"
    /\ ret' = computeEdgeScore(arg, gradMag, small[1], small[2])
    /\ pc' = "scored"
    /\ UNCHANGED <<small, gradMag, arg, result>>
    /\ IdleStays

NextScore == CallComputeEdgeScore

SpecScore == InitScore /\ [][NextScore]_vars

----------------------------------------------------------------------------
(* Inputs of the pipeline *)

\* Input image sizes: one at working resolution, one that is downsampled
Dims == {<<22, 22>>, <<900, 45>>}

Pt(w, h, i, j) == <<Lat(w, i), Lat(h, j)>>

\* What approxPolyDP may hand back for a contour of a w x h mask
Polys(w, h) ==
    { <<Pt(w,h,0,0), Pt(w,h,3,0), Pt(w,h,3,3), Pt(w,h,0,3)>>,      \* rectangle
      <<Pt(w,h,0,0), Pt(w,h,2,0), Pt(w,h,2,3), Pt(w,h,0,3)>>,      \* left part
      <<Pt(w,h,1,3), Pt(w,h,3,3), Pt(w,h,3,0), Pt(w,h,1,0)>>,      \* right part
      <<Pt(w,h,0,0), Pt(w,h,3,0), Pt(w,h,3,3)>>,                   \* triangle
      <<Pt(w,h,0,0), Pt(w,h,3,0), Pt(w,h,3,2), Pt(w,h,2,3), Pt(w,h,0,3)>>,
      <<Pt(w,h,0,0), Pt(w,h,3,3), Pt(w,h,3,0), Pt(w,h,0,3)>>,      \* bow tie
      <<<<2, 2>>, <<Lat(w, 3), 2>>, Pt(w,h,3,3), <<2, Lat(h, 3)>>>>, \* on the border
      <<Pt(w,h,0,0), Pt(w,h,1,0), Pt(w,h,1,1), Pt(w,h,0,1)>>,      \* tiny
      <<<<0, 0>>, <<w - 1, 0>>, <<w - 1, h - 1>>, <<0, h - 1>>>>,  \* whole frame
      <<Pt(w,h,0,0), Pt(w,h,1,0), Pt(w,h,3,3), Pt(w,h,2,3)>> }     \* slanted

----------------------------------------------------------------------------
(* Candidates *)

\* a.edgeScore < b.edgeScore
ScoreLess(a, b) ==
    RatLess(a.edgeScore[1], a.edgeScore[2], b.edgeScore[1], b.edgeScore[2])

\* {approx, area, score}
MakeCandidate(approx, id, cols, rows) ==
    [quad |-> approx,
     area |-> contourArea2(approx),
     edgeScore |-> computeEdgeScore(approx, id, cols, rows).score]

\* c.edgeScore * (c.area / imgArea), with c.area in half pixels
Rescored(c, imgArea) ==
    [c EXCEPT !.edgeScore = <<c.edgeScore[1] * c.area,
                              c.edgeScore[2] * 2 * imgArea>>]

\* std::max_element with the comparator a.edgeScore < b.edgeScore
RECURSIVE BestFrom(_, _, _)
BestFrom(cs, i, largest) ==
    IF i > Len(cs) THEN largest
    ELSE BestFrom(cs, i + 1, IF ScoreLess(cs[largest], cs[i]) THEN i ELSE largest)

MaxElement(cs) == BestFrom(cs, 2, 1)

Perms(n) == {p \in [1..n -> 1..n] : \A i, j \in 1..n : i # j => p[i] # p[j]}

\* std::sort with the comparator a.edgeScore > b.edgeScore: some arrangement
\* in which no element is followed by one that compares before it
SortOutcomes(cs) ==
    LET n == Len(cs)
    IN  {[i \in 1..n |-> cs[p[i]]] : p \in
           {q \in Perms(n) : \A i, j \in 1..n :
               i < j => ~ScoreLess(cs[q[i]], cs[q[j]])}}

----------------------------------------------------------------------------
(* Scale handling *)

\* n / d rounded to nearest, halves to even (cvRound); n >= 0, d > 0
RoundHalfEven(n, d) ==
    LET q == n \div d
        r == n % d
    IN  IF 2 * r < d THEN q
        ELSE IF 2 * r > d THEN q + 1
        ELSE IF q % 2 = 0 THEN q ELSE q + 1

\* std::round(n / d): nearest, halves away from zero
StdRound(n, d) ==
    IF n >= 0 THEN (2 * n + d) \div (2 * d) ELSE -((2 * (-n) + d) \div (2 * d))

ScaleOf(cols, rows) ==
    IF Max2(rows, cols) > TARGET THEN <<TARGET, Max2(rows, cols)>> ELSE <<1, 1>>

\* cv::resize(bgr, small, Size(), scale, scale) or bgr.clone()
SmallOf(cols, rows) ==
    LET sc == ScaleOf(cols, rows)
    IN  <<RoundHalfEven(cols * sc[1], sc[2]), RoundHalfEven(rows * sc[1], sc[2])>>

ScaleBackTrunc(pt, sc) == <<Trunc(X(pt) * sc[2], sc[1]), Trunc(Y(pt) * sc[2], sc[1])>>

\* pt.x = (int)std::round(pt.x / scale), and pt.y alike
ScaleBack(pt, sc) == <<StdRound(X(pt) * sc[2], sc[1]), StdRound(Y(pt) * sc[2], sc[1])>>

quadToJniAlways(quad) ==
    FloatArray([k \in 1..8 |-> IF Len(quad) < 4 THEN 0 ELSE
                    IF k % 2 = 1 THEN X(quad[(k + 1) \div 2]) ELSE Y(quad[k \div 2])])

quadToJni(quad) ==
    IF quad = <<>> THEN NullArray
    ELSE FloatArray([k \in 1..8 |-> IF k % 2 = 1 THEN X(quad[(k + 1) \div 2])
                                                 ELSE Y(quad[k \div 2])])

----------------------------------------------------------------------------
(* detectDocument *)

NoCall == arg = <<>> /\ ret = Null

Init ==
    /\ pc = "start"
    /\ orig = <<0, 0>> /\ scale = <<1, 1>> /\ small = <<0, 0>> /\ gradMag = 0
    /\ candidates = <<>> /\ pushed = <<>>
    /\ gen = 0 /\ mask = 0 /\ limit = 0 /\ eps = 0 /\ ci = 0
    /\ best = 0 /\ result = <<>> /\ jni = NullArray
    /\ NoCall

imgArea == small[1] * small[2]

\* resize, grey, Sobel, magnitude
Preprocess ==
    /\ pc = "start"
    /\ \E d \in Dims, id \in MapIds :
        /\ orig' = d
        /\ scale' = ScaleOf(d[1], d[2])
        /\ small' = SmallOf(d[1], d[2])
        /\ gradMag' = id
    /\ gen' = 1 /\ mask' = 1
    /\ pc' = "mask"
    /\ UNCHANGED <<candidates, pushed, limit, eps, ci, best, result, jni, arg, ret>>

\* masks each generator hands to collectQuads
MasksOf(g) ==
    CASE g = 1 -> 3 * (1 + 6)
      [] g = 2 -> 2
      [] g = 3 -> 2
      [] g = 4 -> 1
      [] g = 5 -> 3
      [] g = 6 -> 3

\* control after a collectQuads call returns
MaskDone ==
    IF mask < MasksOf(gen) THEN /\ mask' = mask + 1 /\ gen' = gen /\ pc' = "mask"
    ELSE IF gen < 6 THEN /\ mask' = 1 /\ gen' = gen + 1 /\ pc' = "mask"
    ELSE /\ mask' = mask /\ gen' = gen /\ pc' = "pooled"

\* collectQuads up to the loops: clean, findContours, sort by area, limit
collectQuadsBegin ==
    /\ pc = "mask"
    /\ \E n \in 0..(IF Len(candidates) < MaxPool THEN MaxContours ELSE 0) :
        /\ limit' = Min2(n, ContourLimit)
        /\ IF limit' = 0
           THEN /\ MaskDone
                /\ UNCHANGED <<eps, ci>>
           ELSE /\ pc' = "approx" /\ eps' = 1 /\ ci' = 1
                /\ UNCHANGED <<gen, mask>>
    /\ UNCHANGED <<orig, scale, small, gradMag, candidates, pushed, best,
                   result, jni, arg, ret>>

findSquaresMultiChannel == gen = 1 /\ collectQuadsBegin

findByMorphGradient == gen = 2 /\ collectQuadsBegin

findBySaturation == gen = 3 /\ collectQuadsBegin

findByColorDistance == gen = 4 /\ collectQuadsBegin

findByLabEdges == gen = 5 /\ collectQuadsBegin

findByCLAHECanny == gen = 6 /\ collectQuadsBegin

Pooled(approx) ==
    /\ Len(approx) = 4
    /\ isGoodQuad(approx, imgArea, small[1], small[2])

\* one iteration of the loops of collectQuads: contour ci at tolerance eps
collectQuads ==
    /\ pc = "approx"
    /\ \E approx \in Polys(small[1], small[2]) :
        /\ Len(candidates) >= MaxPool => ~Pooled(approx)
        /\ IF Pooled(approx)
           THEN LET c == MakeCandidate(approx, gradMag, small[1], small[2])
                IN  /\ candidates' = Append(candidates, c)
                    /\ pushed' = Append(pushed, candidates'[Len(candidates')])
           ELSE UNCHANGED <<candidates, pushed>>
    /\ IF ci < limit THEN /\ ci' = ci + 1
                          /\ UNCHANGED <<eps, gen, mask, pc>>
       ELSE IF eps = 1 THEN /\ eps' = 2 /\ ci' = 1
                            /\ UNCHANGED <<gen, mask, pc>>
       ELSE /\ MaskDone
            /\ UNCHANGED <<eps, ci>>
    /\ UNCHANGED <<orig, scale, small, gradMag, limit, best, result, jni, arg, ret>>

\* if (candidates.empty()) return {};
ReturnEmpty ==
    /\ pc = "pooled"
    /\ candidates = <<>>
    /\ result' = <<>>
    /\ pc' = "returned"
    /\ UNCHANGED <<orig, scale, small, gradMag, candidates, pushed, gen, mask,
                   limit, eps, ci, best, jni, arg, ret>>

\* for (auto& c : candidates) c.edgeScore = c.edgeScore * areaRatio;
Rescore ==
    /\ pc = "pooled"
    /\ candidates # <<>>
    /\ candidates' = [i \in 1..Len(candidates) |-> Rescored(candidates[i], imgArea)]
    /\ pc' = "rescored"
    /\ UNCHANGED <<orig, scale, small, gradMag, pushed, gen, mask, limit, eps,
                   ci, best, result, jni, arg, ret>>

\* auto& best = *std::max_element(...): best refers to an element of the vector
Select ==
    /\ pc = "rescored"
    /\ best' = MaxElement(candidates)
    /\ pc' = "selected"
    /\ UNCHANGED <<orig, scale, small, gradMag, candidates, pushed, gen, mask,
                   limit, eps, ci, result, jni, arg, ret>>

\* std::sort(candidates...) for the top-5 log: rearranges the vector in place
SortForLog ==
    /\ pc = "selected"
    /\ candidates' \in SortOutcomes(candidates)
    /\ pc' = "sorted"
    /\ UNCHANGED <<orig, scale, small, gradMag, pushed, gen, mask, limit, eps,
                   ci, best, result, jni, arg, ret>>

\* auto result = best.quad;
ReadBest ==
    /\ pc = "sorted"
    /\ result' = candidates[best].quad
    /\ pc' = "read"
    /\ UNCHANGED <<orig, scale, small, gradMag, candidates, pushed, gen, mask,
                   limit, eps, ci, best, jni, arg, ret>>

\* for (auto& pt : result) { pt.x = ...; pt.y = ...; }
ScaleResult ==
    /\ pc = "read"
    /\ result' = [k \in 1..Len(result) |-> ScaleBack(result[k], scale)]
    /\ pc' = "scaled"
    /\ UNCHANGED <<orig, scale, small, gradMag, candidates, pushed, gen, mask,
                   limit, eps, ci, best, jni, arg, ret>>

\* orderPoints(result); return result;
OrderResult ==
    /\ pc = "scaled"
    /\ result' = orderPoints(result)
    /\ pc' = "returned"
    /\ UNCHANGED <<orig, scale, small, gradMag, candidates, pushed, gen, mask,
                   limit, eps, ci, best, jni, arg, ret>>

\* return quadToJni(env, detectDocument(bgr));
ReturnToJava ==
    /\ pc = "returned"
    /\ jni' = quadToJni(result)
    /\ pc' = "done"
    /\ UNCHANGED <<orig, scale, small, gradMag, candidates, pushed, gen, mask,
                   limit, eps, ci, best, result, arg, ret>>

Next ==
    \/ Preprocess
    \/ findSquaresMultiChannel
    \/ findByMorphGradient
    \/ findBySaturation
    \/ findByColorDistance
    \/ findByLabEdges
    \/ findByCLAHECanny
    \/ collectQuads
    \/ ReturnEmpty
    \/ Rescore
    \/ Select
    \/ SortForLog
    \/ ReadBest
    \/ ScaleResult
    \/ OrderResult
    \/ ReturnToJava

Spec == Init /\ [][Next]_vars

----------------------------------------------------------------------------
(* Properties *)

\* combined score of a candidate as pushed: edgeScore * area / workingImageArea
Combined(c) == Rescored(c, imgArea)

IsMaxOfPool(i) ==
    \A j \in 1..Len(pushed) : ~ScoreLess(Combined(pushed[i]), Combined(pushed[j]))

\* C1: for a non-empty pool the quad read as the result, before scale mapping
\* and corner ordering, is the quad of a candidate whose combined score is
\* greater than or equal to that of every other candidate of the pool.
C1_ReturnsMaxCombinedScore ==
    pc = "read" =>
        \E i \in 1..Len(pushed) : pushed[i].quad = result /\ IsMaxOfPool(i)

\* C2: "not found" (empty vector from detectDocument, null from quadToJni) is
\* reported exactly when the pool is empty after all six generators have run;
\* otherwise the result is exactly 4 points, 8 coordinates.
C2_NotFoundIffEmptyPool ==
    /\ pc \in {"returned", "done"} =>
        /\ gen = 6 /\ mask = MasksOf(6)
        /\ result = <<>> <=> pushed = <<>>
        /\ result # <<>> => Len(result) = 4
    /\ pc = "done" =>
        /\ jni.null <=> pushed = <<>>
        /\ ~jni.null =>
            /\ Len(jni.elems) = 8
            /\ \A k \in 1..4 : jni.elems[2 * k - 1] = X(result[k])
                               /\ jni.elems[2 * k] = Y(result[k])

C2_Witness == pc = "done" /\ jni.null /\ pushed = <<>> /\ result = <<>>

SumXY(p) == X(p) + Y(p)

DiffYX(p) == Y(p) - X(p)

\* C3: orderPoints puts at index 0 a point of minimum x+y, at index 2 one of
\* maximum x+y, at index 1 one of minimum y-x and at index 3 one of maximum
\* y-x of the four input points (indices 1..4 here).
C3_OrderPointsExtremes ==
    pc = "ordered" =>
        /\ Len(result) = 4
        /\ \A k \in 1..4 : \E i \in 1..4 : result[k] = arg[i]
        /\ \A i \in 1..4 :
            /\ SumXY(result[1]) <= SumXY(arg[i])
            /\ SumXY(result[3]) >= SumXY(arg[i])
            /\ DiffYX(result[2]) <= DiffYX(arg[i])
            /\ DiffYX(result[4]) >= DiffYX(arg[i])

C3_Witness ==
    /\ pc = "ordered"
    /\ arg = <<<<15, 15>>, <<6, 12>>, <<9, 6>>, <<15, 9>>>>
    /\ result = <<<<9, 6>>, <<15, 9>>, <<15, 15>>, <<6, 12>>>>

\* C4: for every quad that passes isGoodQuad the four points orderPoints
\* returns are pairwise distinct and are the four input corners.
C4_OrderingKeepsCorners ==
    (pc = "ordered" /\ ret = TRUE) =>
        /\ \A k, m \in 1..4 : k # m => result[k] # result[m]
        /\ {result[k] : k \in 1..4} = {arg[i] : i \in 1..4}

\* the interior angle at corner k (1..4), from its two adjacent edge vectors
CornerCos(quad, k) ==
    angleCos(quad[Nxt(k, 4)], quad[IF k = 1 THEN 4 ELSE k - 1], quad[k])

\* C5: every quad that isGoodQuad accepts has, at each of its 4 corners, an
\* absolute cosine of the interior angle below 0.4.
C5_AllCornersBelow04 ==
    (pc = "validated" /\ ret = TRUE) =>
        \A k \in 1..4 : FabsBelow04(CornerCos(arg, k))

NearBorder(p, k) ==
    \/ X(p) <= k
    \/ Y(p) <= k
    \/ (small[1] - 1) - X(p) <= k
    \/ (small[2] - 1) - Y(p) <= k

NearBorderCount(q, k) == Cardinality({i \in 1..Len(q) : NearBorder(q[i], k)})

\* C6: every candidate pushed into the pool has exactly 4 vertices, an area
\* between 5% and 85% of the working-image area (bounds included), is convex
\* and has fewer than 3 corners within 5 pixels of an image border; so no quad
\* with 3 or more corners within 3 pixels of the border is pooled.
C6_PooledQuadsAreValid ==
    \A i \in 1..Len(pushed) :
        LET q == pushed[i].quad
        IN  /\ Len(q) = 4
            /\ 20 * contourArea2(q) >= 2 * imgArea
            /\ 20 * contourArea2(q) <= 2 * 17 * imgArea
            /\ isContourConvex(q)
            /\ NearBorderCount(q, 5) < 3
            /\ NearBorderCount(q, 3) < 3
            /\ i <= Len(candidates) /\ candidates[i].quad \in {pushed[j].quad : j \in 1..Len(pushed)}

C6_Witness ==
    /\ Len(pushed) >= 2
    /\ \E i \in 1..Len(pushed) : 20 * contourArea2(pushed[i].quad) = 2 * imgArea

\* r is c / scale rounded to the nearest integer (c >= 0, halves upward)
IsRounded(r, c) ==
    /\ 2 * r * scale[1] > 2 * c * scale[2] - scale[1]
    /\ 2 * r * scale[1] <= 2 * c * scale[2] + scale[1]

IsMapped(p, q) == IsRounded(X(p), X(q)) /\ IsRounded(Y(p), Y(q))

\* C7: scale is 1 when max(W, H) <= 600 and 600 / max(W, H) otherwise; every
\* returned coordinate is round(c / scale) of the matching coordinate c of one
\* pooled candidate's corner, and all 8 coordinates are mapped before the
\* corners are ordered.
C7_ScaleMapping ==
    /\ pc # "start" =>
        IF Max2(orig[1], orig[2]) <= 600
        THEN scale = <<1, 1>>
        ELSE scale = <<600, Max2(orig[1], orig[2])>>
    /\ pc = "scaled" =>
        \E i \in 1..Len(pushed) :
            \A k \in 1..4 : IsMapped(result[k], pushed[i].quad[k])
    /\ (pc \in {"returned", "done"} /\ result # <<>>) =>
        \E i \in 1..Len(pushed) :
            \A k \in 1..4 : \E m \in 1..4 : IsMapped(result[k], pushed[i].quad[m])

C7_Witness ==
    /\ pc = "done"
    /\ scale = <<600, 900>>
    /\ result = <<<<9, 9>>, <<99, 9>>, <<99, 32>>, <<9, 32>>>>

HasTieAtMax ==
    \E i, j \in 1..Len(pushed) : i # j /\ IsMaxOfPool(i) /\ IsMaxOfPool(j)

\* C8: when two or more candidates share the maximum combined score the quad
\* read as the result is that of the one pushed first (pool order: generator,
\* mask, tolerance 2% before 4%, contour by descending area).
C8_FirstMaxWins ==
    (pc = "read" /\ HasTieAtMax) =>
        \E i \in 1..Len(pushed) :
            /\ IsMaxOfPool(i)
            /\ \A j \in 1..(i - 1) : ~IsMaxOfPool(j)
            /\ result = pushed[i].quad

EdgeLen2(q, i) ==
    LET a == q[i]
        b == q[Nxt(i, 4)]
    IN  (X(b) - X(a)) * (X(b) - X(a)) + (Y(b) - Y(a)) * (Y(b) - Y(a))

\* n = max(10, floor(sqrt(d2)))
IsSampleCount(n, d2) ==
    /\ n >= 10
    /\ (n + 1) * (n + 1) > d2
    /\ n > 10 => n * n <= d2

MaxSampleCount == 8 * ScoreGridN + 10

\* the number of samples on edge i of q
SampleCount(q, i) ==
    CHOOSE n \in 10..MaxSampleCount : IsSampleCount(n, EdgeLen2(q, i))

\* how many of the n samples of edge i of q lie inside the map
InMapCount(q, i, n) ==
    Cardinality({s \in 0..(n - 1) :
        InMap(SampleX(q[i], q[Nxt(i, 4)], s, n),
              SampleY(q[i], q[Nxt(i, 4)], s, n), small[1], small[2])})

\* C9: computeEdgeScore visits max(10, floor(edge length)) samples on each of
\* the 4 edges, adds the gradient only of samples inside the map, returns
\* sum / count of those samples or 0 when there is none, never reads outside
\* the map and never divides by zero, whatever the 4 integer points.
C9_EdgeScore ==
    pc = "scored" =>
        /\ ret.visited = SampleCount(arg, 1) + SampleCount(arg, 2)
                         + SampleCount(arg, 3) + SampleCount(arg, 4)
        /\ ret.numSamples =
             InMapCount(arg, 1, SampleCount(arg, 1))
             + InMapCount(arg, 2, SampleCount(arg, 2))
             + InMapCount(arg, 3, SampleCount(arg, 3))
             + InMapCount(arg, 4, SampleCount(arg, 4))
        /\ ret.reads \subseteq (0..(small[1] - 1)) \X (0..(small[2] - 1))
        /\ ret.score[2] # 0
        /\ ret.numSamples = 0 => ret.score[1] = 0
        /\ ret.numSamples > 0 => ret.score = <<ret.totalGrad, ret.numSamples>>
        /\ gradMag = 1 => ret.totalGrad = ret.numSamples
        /\ ret.totalGrad <= 3 * ret.numSamples

C9_Witness ==
    /\ pc = "scored"
    /\ ret.numSamples > 0
    /\ ret.numSamples < ret.visited
    /\ ret.visited > 40
    /\ \E i \in 1..4 : X(arg[i]) < 0
    /\ \E i \in 1..4 : X(arg[i]) >= small[1]

\* one step leaves every candidate as it was, but for the rescoring
CandidatesKept ==
    pc \in {"mask", "approx", "pooled", "rescored", "selected", "sorted"} =>
        \A i \in 1..Len(candidates) :
            /\ i <= Len(candidates')
            /\ candidates'[i].quad = candidates[i].quad
            /\ candidates'[i].area = candidates[i].area
            /\ candidates'[i].area = contourArea2(candidates'[i].quad)
            /\ candidates'[i].edgeScore # candidates[i].edgeScore =>
                 /\ pc = "pooled"
                 /\ candidates'[i] = Rescored(candidates[i], imgArea)

\* C10: while the pool is being built, rescored, searched and until the result
\* is read, no candidate's quad or area changes, and its edgeScore changes only
\* in the rescoring step, to edgeScore * area / workingImageArea.
C10_CandidatesNotMutated == [][CandidatesKept]_vars

====
